---- MODULE Spec2Model ----
(***************************************************************************)
(* Model of c10::impl::KernelFunctionTable and c10::DispatchTable          *)
(* (aten/src/ATen/core/dispatch/DispatchTable.h).                          *)
(*                                                                         *)
(* One DispatchTable object is modelled.  Its members are the variables    *)
(* kernels_, catchallKernel_ and manuallyBoxedKernel_; every public        *)
(* mutator is one action.  The immutable members dispatchKeyExtractor_ and *)
(* operatorName_ are never written after construction and are left out.    *)
(*                                                                         *)
(* Three further variables record the call history, so that statements of  *)
(* the form "after the call ..." can be written: last (the most recent     *)
(* call, its arguments and its outcome), everSet / setSinceRemove (keys    *)
(* that setKernel has stored) and installed (the argument of the most      *)
(* recent setManuallyBoxedKernel_ call that returned normally).            *)
(*                                                                         *)
(* The const accessors are called by reader threads, whose position and    *)
(* locals are the variable rd.  Spec has the mutators only; SpecReaders    *)
(* has the reader threads and a writer whose calls run between the reads;  *)
(* SpecSequences adds pairs of consecutive mutator calls to Spec.          *)
(***************************************************************************)
EXTENDS Integers, FiniteSets, Sequences

\* ------------------------------------------------------------------ bounds

\* TensorTypeId::NumTensorIds: the size of the key domain (scaled down).
NumTensorIds == 3

\* Number of distinct kernel implementations a caller can register.
NumKernelFns == 2

\* Number of distinct InternalBoxedKernelFunction pointers a caller can pass.
NumBoxedFns == 1

\* --------------------------------------------------------------- key domain

\* TensorTypeId::UndefinedTensorId.  The enum is declared in
\* c10/core/TensorTypeId.h; it is the first enumerator, so it indexes a slot
\* of kernels_ (line 74 sizes the array by NumTensorIds and lines 51, 62 index
\* it with any key, unchecked).
UndefinedTensorId == 0

TensorTypeIds == 0 .. (NumTensorIds - 1)

ValidTensorTypeIds == TensorTypeIds \ {UndefinedTensorId}

KernelFns == 1 .. NumKernelFns

BoxedFns == 1 .. NumBoxedFns

\* c10::nullopt / a null InternalBoxedKernelFunction pointer.
nullopt == 0

\* ------------------------------------------------------------ KernelFunction
\* KernelFunction is an opaque collaborator: a validity predicate, a default
\* invalid state, an identity (fn) and the manually boxed kernel pointer that
\* KernelFunction::setManuallyBoxedKernel_ installs.

\* KernelFunction(): the default constructed, invalid kernel.
EmptyKernel == [valid |-> FALSE, fn |-> 0, boxed |-> nullopt]

\* A kernel as a caller hands it to the table: valid, default calling convention.
MakeKernel(f) == [valid |-> TRUE, fn |-> f, boxed |-> nullopt]

\* KernelFunction::isValid
isValid(kernel) == kernel.valid

\* KernelFunction::setManuallyBoxedKernel_
Kernel_setManuallyBoxedKernel_(kernel, func) == [kernel EXCEPT !.boxed = func]

\* ------------------------------------------------------- KernelFunctionTable

\* KernelFunctionTable(): kernels_() , kernelCount_(0)
KernelFunctionTable_new ==
  [kernels_ |-> [k \in TensorTypeIds |-> EmptyKernel], kernelCount_ |-> 0]

\* What a call that TORCH_INTERNAL_ASSERT aborted leaves behind: the table t
\* as it was, no result.
KFT_Fatal(t) == [fatal |-> TRUE, table |-> t, result |-> "NONE"]

\* Mutant of KernelFunctionTable_setKernel: ++kernelCount_ on both branches.
KernelFunctionTable_setKernel_CountsOverwrite(t, dispatchKey, kernel) ==
  IF dispatchKey = UndefinedTensorId
  THEN KFT_Fatal(t)
  ELSE [fatal  |-> FALSE,
        table  |-> [kernels_     |-> [t.kernels_ EXCEPT ![dispatchKey] = kernel],
                    kernelCount_ |-> t.kernelCount_ + 1],
        result |-> IF isValid(t.kernels_[dispatchKey])
                   THEN "OVERWROTE_EXISTING_KERNEL" ELSE "ADDED_NEW_KERNEL"]

\* Mutant of KernelFunctionTable_setKernel: the sentinel check is missing.
KernelFunctionTable_setKernel_NoAssert(t, dispatchKey, kernel) ==
  [fatal  |-> FALSE,
   table  |-> [kernels_     |-> [t.kernels_ EXCEPT ![dispatchKey] = kernel],
               kernelCount_ |-> IF isValid(t.kernels_[dispatchKey])
                                THEN t.kernelCount_ ELSE t.kernelCount_ + 1],
   result |-> IF isValid(t.kernels_[dispatchKey])
              THEN "OVERWROTE_EXISTING_KERNEL" ELSE "ADDED_NEW_KERNEL"]

\* KernelFunctionTable::setKernel.  The assertion throws before anything is
\* written; otherwise the slot is assigned on both branches and kernelCount_
\* is incremented only when the slot was invalid.
KernelFunctionTable_setKernel(t, dispatchKey, kernel) ==
  IF dispatchKey = UndefinedTensorId
  THEN KFT_Fatal(t)
  ELSE LET slot == t.kernels_[dispatchKey] IN
       [fatal  |-> FALSE,
        table  |-> [kernels_     |-> [t.kernels_ EXCEPT ![dispatchKey] = kernel],
                    kernelCount_ |-> IF isValid(slot)
                                     THEN t.kernelCount_ ELSE t.kernelCount_ + 1],
        result |-> IF isValid(slot)
                   THEN "OVERWROTE_EXISTING_KERNEL" ELSE "ADDED_NEW_KERNEL"]

\* Mutant of KernelFunctionTable_removeKernelIfExists: --kernelCount_ is missing.
KernelFunctionTable_removeKernelIfExists_NoDecrement(t, dispatchKey) ==
  IF isValid(t.kernels_[dispatchKey])
  THEN [table  |-> [kernels_     |-> [t.kernels_ EXCEPT ![dispatchKey] = EmptyKernel],
                    kernelCount_ |-> t.kernelCount_],
        result |-> "REMOVED_KERNEL"]
  ELSE [table |-> t, result |-> "KERNEL_DIDNT_EXIST"]

\* Mutant of KernelFunctionTable_removeKernelIfExists: the slot is not cleared.
KernelFunctionTable_removeKernelIfExists_KeepsSlot(t, dispatchKey) ==
  IF isValid(t.kernels_[dispatchKey])
  THEN [table  |-> [kernels_     |-> t.kernels_,
                    kernelCount_ |-> t.kernelCount_ - 1],
        result |-> "REMOVED_KERNEL"]
  ELSE [table |-> t, result |-> "KERNEL_DIDNT_EXIST"]

\* KernelFunctionTable::removeKernelIfExists.  No check of the key: the slot of
\* any key, the sentinel's included, is read.
KernelFunctionTable_removeKernelIfExists(t, dispatchKey) ==
  IF isValid(t.kernels_[dispatchKey])
  THEN [table  |-> [kernels_     |-> [t.kernels_ EXCEPT ![dispatchKey] = EmptyKernel],
                    kernelCount_ |-> t.kernelCount_ - 1],
        result |-> "REMOVED_KERNEL"]
  ELSE [table |-> t, result |-> "KERNEL_DIDNT_EXIST"]

\* KernelFunctionTable::operator[]
KernelFunctionTable_at(t, dispatchKey) == t.kernels_[dispatchKey]

\* KernelFunctionTable::size
KernelFunctionTable_size(t) == t.kernelCount_

\* ------------------------------------------------------------- DispatchTable
\* A DispatchTable value dt is the record of its three mutable members.

\* DispatchTable(schema): kernels_(), catchallKernel_(), no manually boxed kernel.
DispatchTable_new ==
  [kernels_             |-> KernelFunctionTable_new,
   catchallKernel_      |-> EmptyKernel,
   manuallyBoxedKernel_ |-> nullopt]

\* Mutant of DispatchTable_setKernel: an occupied slot keeps its kernel.
DispatchTable_setKernel_FirstWins(dt, dispatchKey, kernel) ==
  LET r == KernelFunctionTable_setKernel(dt.kernels_, dispatchKey, kernel) IN
  [fatal  |-> r.fatal,
   dt     |-> IF r.result = "OVERWROTE_EXISTING_KERNEL"
              THEN dt ELSE [dt EXCEPT !.kernels_ = r.table],
   result |-> r.result,
   warned |-> r.result = "OVERWROTE_EXISTING_KERNEL"]

\* DispatchTable::setKernel.  The by-value parameter is retrofitted when a
\* manually boxed kernel is recorded, then handed to the slot map; a warning
\* is emitted on OVERWROTE_EXISTING_KERNEL.  result is the slot map's result,
\* which the method itself only uses to decide on the warning.
DispatchTable_setKernel(dt, dispatchKey, kernel) ==
  LET k1 == IF dt.manuallyBoxedKernel_ # nullopt
            THEN Kernel_setManuallyBoxedKernel_(kernel, dt.manuallyBoxedKernel_)
            ELSE kernel
      r  == KernelFunctionTable_setKernel(dt.kernels_, dispatchKey, k1)
  IN  [fatal  |-> r.fatal,
       dt     |-> [dt EXCEPT !.kernels_ = r.table],
       result |-> r.result,
       warned |-> r.result = "OVERWROTE_EXISTING_KERNEL"]

\* DispatchTable::removeKernelIfExists.  Delegates; no warning either way.
DispatchTable_removeKernelIfExists(dt, dispatchKey) ==
  LET r == KernelFunctionTable_removeKernelIfExists(dt.kernels_, dispatchKey) IN
  [fatal  |-> FALSE,
   dt     |-> [dt EXCEPT !.kernels_ = r.table],
   result |-> r.result,
   warned |-> FALSE]

\* Mutant of DispatchTable_setCatchallKernel: validity is tested after the
\* assignment, so every call warns.
DispatchTable_setCatchallKernel_WarnsAfterStore(dt, kernel) ==
  LET k1 == IF dt.manuallyBoxedKernel_ # nullopt
            THEN Kernel_setManuallyBoxedKernel_(kernel, dt.manuallyBoxedKernel_)
            ELSE kernel
  IN  [fatal  |-> FALSE,
       dt     |-> [dt EXCEPT !.catchallKernel_ = k1],
       result |-> "NONE",
       warned |-> isValid(k1)]

\* Mutant of DispatchTable_setCatchallKernel: a catch-all is refused (fatal)
\* while keyed kernels are registered.
DispatchTable_setCatchallKernel_RejectsMixing(dt, kernel) ==
  IF KernelFunctionTable_size(dt.kernels_) # 0
  THEN [fatal |-> TRUE, dt |-> dt, result |-> "NONE", warned |-> FALSE]
  ELSE [fatal  |-> FALSE,
        dt     |-> [dt EXCEPT !.catchallKernel_ = kernel],
        result |-> "NONE",
        warned |-> isValid(dt.catchallKernel_)]

\* Mutant of DispatchTable_setCatchallKernel: installing a catch-all drops
\* the keyed kernels.
DispatchTable_setCatchallKernel_ClearsKeyed(dt, kernel) ==
  [fatal  |-> FALSE,
   dt     |-> [dt EXCEPT !.catchallKernel_ = kernel,
                         !.kernels_ = KernelFunctionTable_new],
   result |-> "NONE",
   warned |-> isValid(dt.catchallKernel_)]

\* DispatchTable::setCatchallKernel
DispatchTable_setCatchallKernel(dt, kernel) ==
  LET k1 == IF dt.manuallyBoxedKernel_ # nullopt
            THEN Kernel_setManuallyBoxedKernel_(kernel, dt.manuallyBoxedKernel_)
            ELSE kernel
  IN  [fatal  |-> FALSE,
       dt     |-> [dt EXCEPT !.catchallKernel_ = k1],
       result |-> "NONE",
       warned |-> isValid(dt.catchallKernel_)]

\* Mutant of DispatchTable_removeCatchallKernel: the assertion is missing.
DispatchTable_removeCatchallKernel_NoAssert(dt) ==
  [fatal  |-> FALSE,
   dt     |-> [dt EXCEPT !.catchallKernel_ = EmptyKernel],
   result |-> "NONE",
   warned |-> FALSE]

\* DispatchTable::removeCatchallKernel
DispatchTable_removeCatchallKernel(dt) ==
  IF ~isValid(dt.catchallKernel_)
  THEN [fatal |-> TRUE, dt |-> dt, result |-> "NONE", warned |-> FALSE]
  ELSE [fatal  |-> FALSE,
        dt     |-> [dt EXCEPT !.catchallKernel_ = EmptyKernel],
        result |-> "NONE",
        warned |-> FALSE]

\* Mutant of DispatchTable_isEmpty: the catch-all slot is not looked at.
DispatchTable_isEmpty_IgnoresCatchall(dt) ==
  KernelFunctionTable_size(dt.kernels_) = 0

\* DispatchTable::isEmpty
DispatchTable_isEmpty(dt) ==
  ~isValid(dt.catchallKernel_) /\ KernelFunctionTable_size(dt.kernels_) = 0

\* A KernelFunction pointer: null, or the address of a slot (given by the
\* slot's content).
NullPtr == [isNull |-> TRUE, kernel |-> EmptyKernel]

PtrTo(kernel) == [isNull |-> FALSE, kernel |-> kernel]

\* DispatchTable::lookup
DispatchTable_lookup(dt, dispatchKey) ==
  LET slot == KernelFunctionTable_at(dt.kernels_, dispatchKey) IN
  IF isValid(slot) THEN PtrTo(slot) ELSE NullPtr

\* DispatchTable::lookupCatchallKernel
DispatchTable_lookupCatchallKernel(dt) ==
  IF ~isValid(dt.catchallKernel_) THEN NullPtr ELSE PtrTo(dt.catchallKernel_)

\* Text is a sequence of characters.
Digits == <<"0", "1", "2", "3", "4", "5", "6", "7", "8", "9">>

Separator == <<",", " ">>

CatchallMarker == <<"C", "A", "T", "C", "H", "-", "A", "L", "L">>

\* toString(TensorTypeId): the key's decimal numeral, most significant digit
\* first.
RECURSIVE toString(_)
toString(dispatchKey) ==
  IF dispatchKey < 10
  THEN <<Digits[dispatchKey + 1]>>
  ELSE toString(dispatchKey \div 10) \o <<Digits[(dispatchKey % 10) + 1]>>

\* DispatchTable::listAllDispatchKeys, its locals after `str << "["`.
listAllDispatchKeys_begin == [iter |-> 0, str |-> <<"[">>, has_kernels |-> FALSE]

\* One pass of the loop body of listAllDispatchKeys for the key l.iter,
\* followed by ++iter.
listAllDispatchKeys_body(dt, l) ==
  IF ~isValid(KernelFunctionTable_at(dt.kernels_, l.iter))
  THEN [l EXCEPT !.iter = l.iter + 1]
  ELSE [iter        |-> l.iter + 1,
        str         |-> (IF l.has_kernels THEN l.str \o Separator ELSE l.str)
                          \o toString(l.iter),
        has_kernels |-> TRUE]

\* Mutant of listAllDispatchKeys_end: no ", " in front of the marker.
listAllDispatchKeys_end_NoSeparator(dt, l) ==
  (IF isValid(dt.catchallKernel_) THEN l.str \o CatchallMarker ELSE l.str)
    \o <<"]">>

\* The part of listAllDispatchKeys after the loop: the catch-all marker, the
\* closing bracket, the returned text.
listAllDispatchKeys_end(dt, l) ==
  (IF isValid(dt.catchallKernel_)
   THEN (IF l.has_kernels THEN l.str \o Separator ELSE l.str) \o CatchallMarker
   ELSE l.str)
    \o <<"]">>

\* The loop of listAllDispatchKeys: iter runs from l.iter up to NumTensorIds.
RECURSIVE listAllDispatchKeys_loop(_, _)
listAllDispatchKeys_loop(dt, l) ==
  IF l.iter = NumTensorIds
  THEN l
  ELSE listAllDispatchKeys_loop(dt, listAllDispatchKeys_body(dt, l))

\* DispatchTable::listAllDispatchKeys
DispatchTable_listAllDispatchKeys(dt) ==
  listAllDispatchKeys_end(dt, listAllDispatchKeys_loop(dt, listAllDispatchKeys_begin))

\* DispatchTable::setManuallyBoxedKernel_.  The assertion reads the member
\* manuallyBoxedKernel_; the loop retrofits every valid keyed slot.  The body
\* assigns neither manuallyBoxedKernel_ nor catchallKernel_.
DispatchTable_setManuallyBoxedKernel_(dt, func) ==
  IF dt.manuallyBoxedKernel_ # nullopt
  THEN [fatal |-> TRUE, dt |-> dt, result |-> "NONE", warned |-> FALSE]
  ELSE [fatal  |-> FALSE,
        dt     |-> [dt EXCEPT !.kernels_.kernels_ =
                      [k \in TensorTypeIds |->
                         IF isValid(dt.kernels_.kernels_[k])
                         THEN Kernel_setManuallyBoxedKernel_(dt.kernels_.kernels_[k], func)
                         ELSE dt.kernels_.kernels_[k]]],
        result |-> "NONE",
        warned |-> FALSE]

\* --------------------------------------------------------------------- state

VARIABLES
  kernels_,              \* DispatchTable::kernels_ (a KernelFunctionTable)
  catchallKernel_,       \* DispatchTable::catchallKernel_
  manuallyBoxedKernel_,  \* DispatchTable::manuallyBoxedKernel_
  last,                  \* history: the most recent call and its outcome
  everSet,               \* history: keys some setKernel call has stored
  setSinceRemove,        \* history: keys stored by setKernel and not passed
                         \*          to removeKernelIfExists since
  installed,             \* history: func of the most recent
                         \*          setManuallyBoxedKernel_ that returned
  rd                     \* per reader thread: the accessor call in progress,
                         \*          its locals, the value it returned

vars == <<kernels_, catchallKernel_, manuallyBoxedKernel_,
          last, everSet, setSinceRemove, installed, rd>>

table == <<kernels_, catchallKernel_, manuallyBoxedKernel_>>

\* The DispatchTable object in the current state.
Self ==
  [kernels_             |-> kernels_,
   catchallKernel_      |-> catchallKernel_,
   manuallyBoxedKernel_ |-> manuallyBoxedKernel_]

\* The argument fields of last that a call does not have.
NoKey == NumTensorIds

NoFn == EmptyKernel.fn

\* seen: for a setKernel call, whether an earlier setKernel call had stored
\* that key.
Call(op, key, fn, func, r) ==
  [op |-> op, key |-> key, fn |-> fn, func |-> func,
   fatal |-> r.fatal, result |-> r.result, warned |-> r.warned,
   seen |-> op = "setKernel" /\ key \in everSet]

Store(dt) ==
  /\ kernels_' = dt.kernels_
  /\ catchallKernel_' = dt.catchallKernel_
  /\ manuallyBoxedKernel_' = dt.manuallyBoxedKernel_

\* The reader threads.
Readers == {"r1", "r2"}

\* The accessors that return after one read of the table.
SingleReadAccessors == {"lookup", "lookupCatchallKernel", "size", "isEmpty"}

\* What an accessor returns, one field per return type.
NoValue == [ptr |-> NullPtr, n |-> 0, b |-> FALSE, text |-> <<>>, fatal |-> FALSE]

\* Mutant of Accessor: lookupCatchallKernel moves the kernel out of the slot.
Accessor_MovesCatchallOut(dt, op, dispatchKey) ==
  [dt    |-> IF op = "lookupCatchallKernel"
             THEN [dt EXCEPT !.catchallKernel_ = EmptyKernel] ELSE dt,
   value |-> CASE op = "lookup" ->
                    [NoValue EXCEPT !.ptr = DispatchTable_lookup(dt, dispatchKey)]
               [] op = "lookupCatchallKernel" ->
                    [NoValue EXCEPT !.ptr = DispatchTable_lookupCatchallKernel(dt)]
               [] op = "size" ->
                    [NoValue EXCEPT !.n = KernelFunctionTable_size(dt.kernels_)]
               [] op = "isEmpty" ->
                    [NoValue EXCEPT !.b = DispatchTable_isEmpty(dt)]
               [] op = "listAllDispatchKeys" ->
                    [NoValue EXCEPT !.text = DispatchTable_listAllDispatchKeys(dt)]]

\* A call of a const accessor on dt, run to completion with nothing in
\* between: the table afterwards (a const method writes no member, and none
\* of these has an assertion) and the value returned.
Accessor(dt, op, dispatchKey) ==
  [dt    |-> dt,
   value |-> CASE op = "lookup" ->
                    [NoValue EXCEPT !.ptr = DispatchTable_lookup(dt, dispatchKey)]
               [] op = "lookupCatchallKernel" ->
                    [NoValue EXCEPT !.ptr = DispatchTable_lookupCatchallKernel(dt)]
               [] op = "size" ->
                    [NoValue EXCEPT !.n = KernelFunctionTable_size(dt.kernels_)]
               [] op = "isEmpty" ->
                    [NoValue EXCEPT !.b = DispatchTable_isEmpty(dt)]
               [] op = "listAllDispatchKeys" ->
                    [NoValue EXCEPT !.text = DispatchTable_listAllDispatchKeys(dt)]]

IdleReader ==
  [pc |-> "idle", op |-> "none", key |-> NoKey,
   l |-> listAllDispatchKeys_begin, value |-> NoValue]

\* The single-writer discipline of the owning registry: a mutator runs only
\* while no reader is inside an accessor, and what the readers returned
\* before the write has been consumed.
WriterPhase ==
  /\ \A t \in Readers : rd[t].pc # "listAllDispatchKeys"
  /\ rd' = [t \in Readers |-> IdleReader]

Init ==
  /\ rd = [t \in Readers |-> IdleReader]
  /\ kernels_ = DispatchTable_new.kernels_
  /\ catchallKernel_ = DispatchTable_new.catchallKernel_
  /\ manuallyBoxedKernel_ = DispatchTable_new.manuallyBoxedKernel_
  /\ last = [op |-> "DispatchTable", key |-> NoKey, fn |-> NoFn, func |-> nullopt,
             fatal |-> FALSE, result |-> "NONE", warned |-> FALSE, seen |-> FALSE]
  /\ everSet = {}
  /\ setSinceRemove = {}
  /\ installed = nullopt

\* dt.setKernel(dispatchKey, kernel), any key of the enum, any valid kernel.
SetKernel ==
  \E dispatchKey \in TensorTypeIds, f \in KernelFns :
    LET r == DispatchTable_setKernel(Self, dispatchKey, MakeKernel(f)) IN
    /\ WriterPhase
    /\ Store(r.dt)
    /\ last' = Call("setKernel", dispatchKey, f, nullopt, r)
    /\ everSet' = IF r.fatal THEN everSet ELSE everSet \cup {dispatchKey}
    /\ setSinceRemove' = IF r.fatal THEN setSinceRemove
                         ELSE setSinceRemove \cup {dispatchKey}
    /\ UNCHANGED installed

\* dt.removeKernelIfExists(dispatchKey), any key of the enum.
RemoveKernelIfExists ==
  \E dispatchKey \in TensorTypeIds :
    LET r == DispatchTable_removeKernelIfExists(Self, dispatchKey) IN
    /\ WriterPhase
    /\ Store(r.dt)
    /\ last' = Call("removeKernelIfExists", dispatchKey, NoFn, nullopt, r)
    /\ setSinceRemove' = setSinceRemove \ {dispatchKey}
    /\ UNCHANGED <<everSet, installed>>

\* dt.setCatchallKernel(kernel), any valid kernel.
SetCatchallKernel ==
  \E f \in KernelFns :
    LET r == DispatchTable_setCatchallKernel(Self, MakeKernel(f)) IN
    /\ WriterPhase
    /\ Store(r.dt)
    /\ last' = Call("setCatchallKernel", NoKey, f, nullopt, r)
    /\ UNCHANGED <<everSet, setSinceRemove, installed>>

\* dt.removeCatchallKernel()
RemoveCatchallKernel ==
  LET r == DispatchTable_removeCatchallKernel(Self) IN
  /\ WriterPhase
  /\ Store(r.dt)
  /\ last' = Call("removeCatchallKernel", NoKey, NoFn, nullopt, r)
  /\ UNCHANGED <<everSet, setSinceRemove, installed>>

\* dt.setManuallyBoxedKernel_(func), any non-null func.
SetManuallyBoxedKernel ==
  \E func \in BoxedFns :
    LET r == DispatchTable_setManuallyBoxedKernel_(Self, func) IN
    /\ WriterPhase
    /\ Store(r.dt)
    /\ last' = Call("setManuallyBoxedKernel_", NoKey, NoFn, func, r)
    /\ installed' = IF r.fatal THEN installed ELSE func
    /\ UNCHANGED <<everSet, setSinceRemove>>

Next ==
  \/ SetKernel
  \/ RemoveKernelIfExists
  \/ SetCatchallKernel
  \/ RemoveCatchallKernel
  \/ SetManuallyBoxedKernel

Spec == Init /\ [][Next]_vars

\* ------------------------------------------------------------------- readers

history == <<last, everSet, setSinceRemove, installed>>

\* The calls of the single-read accessors: lookup with any key of the enum,
\* the others without a key.
SingleReadCalls ==
  {[op |-> "lookup", key |-> k] : k \in TensorTypeIds}
    \cup {[op |-> op, key |-> NoKey] : op \in SingleReadAccessors \ {"lookup"}}

\* The outcomes of every mutator call a writer can make on dt.
MutatorCalls(dt) ==
  {DispatchTable_setKernel(dt, k, MakeKernel(f)) : k \in TensorTypeIds, f \in KernelFns}
    \cup {DispatchTable_removeKernelIfExists(dt, k) : k \in TensorTypeIds}
    \cup {DispatchTable_setCatchallKernel(dt, MakeKernel(f)) : f \in KernelFns}
    \cup {DispatchTable_removeCatchallKernel(dt)}
    \cup {DispatchTable_setManuallyBoxedKernel_(dt, func) : func \in BoxedFns}

\* The writer makes one mutator call between two read phases.  The call
\* history is not kept here: the readers see the table only.
Write ==
  \E r \in MutatorCalls(Self) :
    /\ WriterPhase
    /\ Store(r.dt)
    /\ UNCHANGED history

\* Thread t calls lookup(dispatchKey), lookupCatchallKernel(), size() or
\* isEmpty(), with any key of the enum, and the call returns.
ReaderCall ==
  \E t \in Readers, call \in SingleReadCalls :
    LET r == Accessor(Self, call.op, call.key) IN
    /\ rd[t].pc # "listAllDispatchKeys"
    /\ Store(r.dt)
    /\ rd' = [rd EXCEPT ![t] =
                [IdleReader EXCEPT !.pc = "done", !.op = call.op,
                                   !.key = call.key, !.value = r.value]]
    /\ UNCHANGED history

\* Thread t enters listAllDispatchKeys(): str holds "[", iter is 0.
ReaderListBegin ==
  \E t \in Readers :
    /\ rd[t].pc # "listAllDispatchKeys"
    /\ rd' = [rd EXCEPT ![t] =
                [IdleReader EXCEPT !.pc = "listAllDispatchKeys",
                                   !.op = "listAllDispatchKeys"]]
    /\ UNCHANGED <<table, history>>

\* Thread t runs one pass of the loop of listAllDispatchKeys().
ReaderListStep ==
  \E t \in Readers :
    /\ rd[t].pc = "listAllDispatchKeys"
    /\ rd[t].l.iter # NumTensorIds
    /\ rd' = [rd EXCEPT ![t].l = listAllDispatchKeys_body(Self, rd[t].l)]
    /\ UNCHANGED <<table, history>>

\* Thread t leaves the loop of listAllDispatchKeys() and returns the text.
ReaderListEnd ==
  \E t \in Readers :
    /\ rd[t].pc = "listAllDispatchKeys"
    /\ rd[t].l.iter = NumTensorIds
    /\ rd' = [rd EXCEPT ![t] =
                [IdleReader EXCEPT !.pc = "done", !.op = "listAllDispatchKeys",
                                   !.value = [NoValue EXCEPT !.text =
                                     listAllDispatchKeys_end(Self, rd[t].l)]]]
    /\ UNCHANGED <<table, history>>

NextReaders ==
  \/ Write
  \/ ReaderCall
  \/ ReaderListBegin
  \/ ReaderListStep
  \/ ReaderListEnd

SpecReaders == Init /\ [][NextReaders]_vars

\* ------------------------------------------------------------ call sequences

\* dt.setKernel(dispatchKey, kernel); dt.removeKernelIfExists(dispatchKey),
\* one right after the other, for a valid key that is unoccupied.  last holds
\* the outcome of the second call.
SetThenRemove ==
  \E dispatchKey \in ValidTensorTypeIds, f \in KernelFns :
    LET a == DispatchTable_setKernel(Self, dispatchKey, MakeKernel(f))
        b == DispatchTable_removeKernelIfExists(a.dt, dispatchKey)
    IN  /\ DispatchTable_lookup(Self, dispatchKey).isNull
        /\ ~a.fatal
        /\ WriterPhase
        /\ Store(b.dt)
        /\ last' = Call("setKernel;removeKernelIfExists", dispatchKey, f, nullopt, b)
        /\ everSet' = everSet \cup {dispatchKey}
        /\ setSinceRemove' = setSinceRemove \ {dispatchKey}
        /\ UNCHANGED installed

\* dt.removeKernelIfExists(dispatchKey) twice in a row, any key of the enum.
\* last holds the outcome of the second call.
RemoveTwice ==
  \E dispatchKey \in TensorTypeIds :
    LET a == DispatchTable_removeKernelIfExists(Self, dispatchKey)
        b == DispatchTable_removeKernelIfExists(a.dt, dispatchKey)
    IN  /\ WriterPhase
        /\ Store(b.dt)
        /\ last' = Call("removeKernelIfExists;removeKernelIfExists",
                         dispatchKey, NoFn, nullopt, b)
        /\ setSinceRemove' = setSinceRemove \ {dispatchKey}
        /\ UNCHANGED <<everSet, installed>>

NextSequences ==
  \/ Next
  \/ SetThenRemove
  \/ RemoveTwice

SpecSequences == Init /\ [][NextSequences]_vars

\* -------------------------------------------------------------- observations

\* The keyed slots that hold a kernel, found by scanning the array.
OccupiedKeys == {k \in TensorTypeIds : isValid(kernels_.kernels_[k])}

size == KernelFunctionTable_size(kernels_)

CatchallInstalled == ~DispatchTable_lookupCatchallKernel(Self).isNull

LastReturned(op) == last.op = op /\ ~last.fatal

\* -------------------------------------------------------------------- claims

\* C1: in every reachable state size() equals the number of occupied keyed
\* slots, whatever the catch-all slot holds.
C1_SizeIsOccupancy ==
  size = Cardinality(OccupiedKeys)

\* C1 witness: two keyed kernels beside an installed catch-all, after a
\* retrofit call and an overwrite.
C1_Witness ==
  /\ size = 2
  /\ CatchallInstalled
  /\ installed # nullopt
  /\ last.op = "setKernel" /\ last.result = "OVERWROTE_EXISTING_KERNEL"

\* C2: right after setKernel(k, f) returns for a valid key k, lookup(k) is
\* non-null and points at f, whether the slot was empty or occupied before.
C2_SetThenLookup ==
  LastReturned("setKernel") =>
    /\ ~DispatchTable_lookup(Self, last.key).isNull
    /\ DispatchTable_lookup(Self, last.key).kernel.fn = last.fn

\* C2 witness: setKernel has just overwritten an occupied slot and lookup
\* yields the new kernel.
C2_Witness ==
  /\ LastReturned("setKernel")
  /\ last.key \in ValidTensorTypeIds
  /\ last.result = "OVERWROTE_EXISTING_KERNEL"
  /\ DispatchTable_lookup(Self, last.key).kernel.fn = last.fn

\* C3 (as claimed): setManuallyBoxedKernel_ returns normally once per table.
\* A call made after one that returned is fatal, a call that returns leaves
\* the retrofit member present, and the member never goes back to absent.
C3_RetrofitOnce ==
  [][/\ (last'.op = "setManuallyBoxedKernel_" /\ installed # nullopt)
          => last'.fatal
     /\ (last'.op = "setManuallyBoxedKernel_" /\ ~last'.fatal)
          => manuallyBoxedKernel_' # nullopt
     /\ (manuallyBoxedKernel_ # nullopt) => (manuallyBoxedKernel_' # nullopt)
    ]_vars

\* C4 (as claimed): right after setManuallyBoxedKernel_(func) returns, every
\* occupied keyed slot and an installed catch-all carry func.
C4_RetrofitReachesRegistered ==
  LastReturned("setManuallyBoxedKernel_") =>
    /\ \A k \in OccupiedKeys : kernels_.kernels_[k].boxed = last.func
    /\ CatchallInstalled => catchallKernel_.boxed = last.func

\* C5 (as claimed): once setManuallyBoxedKernel_(func) has returned, a kernel
\* that setKernel or setCatchallKernel stores afterwards carries func.
C5_RetrofitReachesLater ==
  /\ (installed # nullopt /\ LastReturned("setKernel"))
       => kernels_.kernels_[last.key].boxed = installed
  /\ (installed # nullopt /\ LastReturned("setCatchallKernel"))
       => catchallKernel_.boxed = installed

\* C6: removeKernelIfExists(k) on an unoccupied key reports KERNEL_DIDNT_EXIST
\* and keeps size(); on an occupied key it reports REMOVED_KERNEL, size() drops
\* by exactly 1 and lookup(k) is null afterwards.
C6_Remove ==
  [][last'.op = "removeKernelIfExists" =>
       IF ~DispatchTable_lookup(Self, last'.key).isNull
       THEN /\ last'.result = "REMOVED_KERNEL"
            /\ KernelFunctionTable_size(kernels_') = size - 1
            /\ ~isValid(kernels_'.kernels_[last'.key])
       ELSE /\ last'.result = "KERNEL_DIDNT_EXIST"
            /\ KernelFunctionTable_size(kernels_') = size
    ]_vars

\* C6 witness: removeKernelIfExists has just removed one of two kernels and
\* the key now looks up as absent.
C6_Witness ==
  /\ last.op = "removeKernelIfExists"
  /\ last.result = "REMOVED_KERNEL"
  /\ size = 1
  /\ DispatchTable_lookup(Self, last.key).isNull

\* C7: isEmpty() holds exactly when size() is 0 and lookupCatchallKernel()
\* is null; after the last keyed kernel is removed beside a catch-all,
\* isEmpty() is false.
C7_IsEmpty ==
  /\ DispatchTable_isEmpty(Self) <=> (size = 0 /\ ~CatchallInstalled)
  /\ (last.op = "removeKernelIfExists" /\ last.result = "REMOVED_KERNEL"
        /\ OccupiedKeys = {} /\ CatchallInstalled)
       => ~DispatchTable_isEmpty(Self)

\* C7 witness: the last keyed kernel has just been removed and a catch-all
\* remains.
C7_Witness ==
  /\ last.op = "removeKernelIfExists"
  /\ last.result = "REMOVED_KERNEL"
  /\ size = 0
  /\ CatchallInstalled
  /\ ~DispatchTable_isEmpty(Self)

\* C8: setKernel with UndefinedTensorId is fatal and changes no member of the
\* table: the keyed slots, the counter, the catch-all, the retrofit member.
C8_UndefinedKeyFatal ==
  [][(last'.op = "setKernel" /\ last'.key = UndefinedTensorId) =>
       /\ last'.fatal
       /\ kernels_' = kernels_
       /\ catchallKernel_' = catchallKernel_
       /\ manuallyBoxedKernel_' = manuallyBoxedKernel_
    ]_vars

\* C8 witness: a fatal setKernel(UndefinedTensorId, f) on a table that holds
\* kernels and has seen a retrofit call.
C8_Witness ==
  /\ last.op = "setKernel"
  /\ last.key = UndefinedTensorId
  /\ last.fatal
  /\ size > 0
  /\ CatchallInstalled
  /\ installed # nullopt

\* C9: removeCatchallKernel is fatal and changes nothing when no catch-all is
\* installed; otherwise it returns and lookupCatchallKernel() is null afterwards.
C9_RemoveCatchall ==
  [][last'.op = "removeCatchallKernel" =>
       IF CatchallInstalled
       THEN /\ ~last'.fatal
            /\ ~isValid(catchallKernel_')
       ELSE /\ last'.fatal
            /\ kernels_' = kernels_
            /\ catchallKernel_' = catchallKernel_
            /\ manuallyBoxedKernel_' = manuallyBoxedKernel_
    ]_vars

\* C9 witness: removeCatchallKernel has just cleared an installed catch-all
\* and keyed kernels remain.
C9_Witness ==
  /\ LastReturned("removeCatchallKernel")
  /\ DispatchTable_lookupCatchallKernel(Self).isNull
  /\ size > 0

\* C10 (as claimed): the first setKernel for a key reports ADDED_NEW_KERNEL
\* and every later setKernel for that key reports OVERWROTE_EXISTING_KERNEL,
\* whatever calls came in between.
C10_FirstAddsLaterOverwrites ==
  LastReturned("setKernel") =>
    last.result = IF last.seen
                  THEN "OVERWROTE_EXISTING_KERNEL" ELSE "ADDED_NEW_KERNEL"

\* C10 (amended): setKernel for a key reports ADDED_NEW_KERNEL when it is the
\* first setKernel for the key or the first one since a removeKernelIfExists
\* of that key, and OVERWROTE_EXISTING_KERNEL otherwise.
C10_AddsUnlessSetSinceRemove ==
  [][(last'.op = "setKernel" /\ ~last'.fatal) =>
       /\ last'.result = IF last'.key \in setSinceRemove
                         THEN "OVERWROTE_EXISTING_KERNEL" ELSE "ADDED_NEW_KERNEL"
       /\ last'.key \notin everSet => last'.result = "ADDED_NEW_KERNEL"
    ]_vars

\* C10 witness: a key that was set and then removed has just been set again,
\* and the call reported ADDED_NEW_KERNEL.
C10_Witness ==
  /\ LastReturned("setKernel")
  /\ last.result = "ADDED_NEW_KERNEL"
  /\ last.seen
  /\ size = 2

RECURSIVE Ascending(_)
Ascending(S) ==
  IF S = {} THEN <<>>
  ELSE LET least == CHOOSE k \in S : \A j \in S : k <= j
       IN  <<least>> \o Ascending(S \ {least})

\* The texts of entries, with ", " between consecutive ones and nowhere else.
RECURSIVE Joined(_)
Joined(entries) ==
  IF entries = <<>> THEN <<>>
  ELSE IF Len(entries) = 1 THEN Head(entries)
  ELSE Head(entries) \o Separator \o Joined(Tail(entries))

\* What the listing has to show in the current state: the occupied keys in
\* ascending order, then the marker if a catch-all is installed.
ExpectedEntries ==
  [i \in 1 .. Cardinality(OccupiedKeys) |-> toString(Ascending(OccupiedKeys)[i])]
    \o (IF CatchallInstalled THEN <<CatchallMarker>> ELSE <<>>)

C13_WarnsOnOverwriteOnly ==
  [][/\ (last'.op = "setKernel" /\ ~last'.fatal)
          => /\ last'.warned <=> isValid(kernels_.kernels_[last'.key])
             /\ isValid(kernels_'.kernels_[last'.key])
             /\ kernels_'.kernels_[last'.key].fn = last'.fn
     /\ (last'.op = "setKernel" /\ last'.fatal) => ~last'.warned
     /\ last'.op = "setCatchallKernel"
          => /\ last'.warned <=> isValid(catchallKernel_)
             /\ ~last'.fatal
             /\ isValid(catchallKernel_')
             /\ catchallKernel_'.fn = last'.fn
     /\ last'.op = "removeKernelIfExists" => ~last'.warned
    ]_vars

\* C13 witness: setCatchallKernel has just replaced a catch-all, with a
\* warning, beside keyed kernels.
C13_Witness ==
  /\ LastReturned("setCatchallKernel")
  /\ last.warned
  /\ catchallKernel_.fn = last.fn
  /\ size > 0

\* C14: a step of a reader thread (a call of lookup, lookupCatchallKernel,
\* size or isEmpty, or a step of listAllDispatchKeys, interleaved in any
\* order with the other reader) changes no member of the table; the value a
\* reader returns is the value the accessor gives when called alone on the
\* table, and is never a fatal error, for any key; a lookup of an unoccupied
\* key returns the null pointer.
C14_ReadersOnlyRead ==
  [][\A t \in Readers :
       (rd'[t] # rd[t] /\ rd'[t].pc # "idle") =>
         /\ kernels_' = kernels_
         /\ catchallKernel_' = catchallKernel_
         /\ manuallyBoxedKernel_' = manuallyBoxedKernel_
         /\ rd'[t].pc = "done" =>
              /\ rd'[t].value = Accessor(Self, rd'[t].op, rd'[t].key).value
              /\ ~rd'[t].value.fatal
              /\ (rd'[t].op = "lookup" /\ rd'[t].key \notin OccupiedKeys)
                   => rd'[t].value.ptr = NullPtr
    ]_vars

\* C14 witness: one reader has returned the listing "[1, 2, CATCH-ALL]" while
\* the other is inside the loop of its own listAllDispatchKeys call.
C14_Witness ==
  /\ rd["r1"].pc = "done"
  /\ rd["r1"].op = "listAllDispatchKeys"
  /\ rd["r1"].value.text = <<"[", "1", ",", " ", "2", ",", " ",
                              "C", "A", "T", "C", "H", "-", "A", "L", "L", "]">>
  /\ rd["r2"].pc = "listAllDispatchKeys"
  /\ rd["r2"].l.iter = 2

\* The occupancy state of dt: <<some keyed slot is occupied, a catch-all is
\* installed>>.
Occupancy(dt) ==
  << \E k \in TensorTypeIds : ~DispatchTable_lookup(dt, k).isNull,
     ~DispatchTable_lookupCatchallKernel(dt).isNull >>

\* The calls removeKernelIfExists(k) for every key of keys, one after the
\* other, on dt: the table afterwards and whether a call was fatal.
RECURSIVE RemoveEach(_, _)
RemoveEach(dt, keys) ==
  IF keys = {} THEN [dt |-> dt, fatal |-> FALSE]
  ELSE LET k    == CHOOSE j \in keys : TRUE
           r    == DispatchTable_removeKernelIfExists(dt, k)
           rest == RemoveEach(r.dt, keys \ {k})
       IN  [dt |-> rest.dt, fatal |-> r.fatal \/ rest.fatal]

\* A sequence of mutator calls that takes dt to the occupancy state
\* <<keyed, catchall>>: removeKernelIfExists for each occupied key or one
\* setKernel, then removeCatchallKernel or setCatchallKernel, each only when
\* the occupancy has to change.
Goto(dt, keyed, catchall) ==
  LET f  == CHOOSE g \in KernelFns : TRUE
      k  == CHOOSE j \in ValidTensorTypeIds : TRUE
      occupied == {j \in TensorTypeIds : ~DispatchTable_lookup(dt, j).isNull}
      a  == IF keyed
            THEN IF occupied # {} THEN [dt |-> dt, fatal |-> FALSE]
                 ELSE DispatchTable_setKernel(dt, k, MakeKernel(f))
            ELSE RemoveEach(dt, occupied)
      has == ~DispatchTable_lookupCatchallKernel(a.dt).isNull
      b  == IF catchall = has THEN [dt |-> a.dt, fatal |-> FALSE]
            ELSE IF catchall THEN DispatchTable_setCatchallKernel(a.dt, MakeKernel(f))
            ELSE DispatchTable_removeCatchallKernel(a.dt)
  IN  [dt |-> b.dt, fatal |-> a.fatal \/ b.fatal]

C16_KeyedAndCatchallIndependent ==
  [][/\ last'.op \in {"setKernel", "removeKernelIfExists"}
          => /\ catchallKernel_' = catchallKernel_
             /\ \A j \in TensorTypeIds \ {last'.key} :
                  kernels_'.kernels_[j] = kernels_.kernels_[j]
     /\ last'.op \in {"setCatchallKernel", "removeCatchallKernel"}
          => /\ kernels_'.kernels_ = kernels_.kernels_
             /\ KernelFunctionTable_size(kernels_') = size
    ]_vars

\* C16 witness: setKernel has just stored a kernel beside another keyed
\* kernel and a catch-all.
C16_Witness ==
  /\ LastReturned("setKernel")
  /\ last.result = "ADDED_NEW_KERNEL"
  /\ CatchallInstalled
  /\ \E j \in OccupiedKeys \ {last.key} : kernels_.kernels_[j].fn # last.fn

Observable ==
  [lookup   |-> [k \in TensorTypeIds |-> DispatchTable_lookup(Self, k)],
   size     |-> KernelFunctionTable_size(kernels_),
   isEmpty  |-> DispatchTable_isEmpty(Self),
   catchall |-> DispatchTable_lookupCatchallKernel(Self),
   listing  |-> DispatchTable_listAllDispatchKeys(Self)]

\* C18: setKernel(k, f) followed by removeKernelIfExists(k), for a valid
\* unoccupied key k, reports REMOVED_KERNEL and leaves every observable as it
\* was before the pair; a second consecutive removeKernelIfExists(k) reports
\* KERNEL_DIDNT_EXIST and leaves the table as the first one left it.
C18_RoundTrip ==
  [][/\ last'.op = "setKernel;removeKernelIfExists"
          => /\ ~last'.fatal
             /\ last'.result = "REMOVED_KERNEL"
             /\ Observable' = Observable
     /\ last'.op = "removeKernelIfExists;removeKernelIfExists"
          => /\ ~last'.fatal
             /\ last'.result = "KERNEL_DIDNT_EXIST"
             /\ Self' = DispatchTable_removeKernelIfExists(Self, last'.key).dt
    ]_vars

\* C18 witness: a setKernel / removeKernelIfExists pair has just run on a
\* table that holds another keyed kernel and a catch-all.
C18_Witness ==
  /\ last.op = "setKernel;removeKernelIfExists"
  /\ last.result = "REMOVED_KERNEL"
  /\ size = 1
  /\ CatchallInstalled
  /\ DispatchTable_lookup(Self, last.key).isNull

====
